---- MODULE Spec2Model ----
(***************************************************************************)
(* Model of server.py: the employee / payroll / sector backend.            *)
(*                                                                         *)
(* The two MongoDB collections (db.employees, db.sector_data) are          *)
(* sequences of documents in insertion order.  A handler with a single     *)
(* await is one action.  A handler with two awaits (find_one, then         *)
(* update_one or delete_one) is two actions: it returns to the event loop  *)
(* between them, so steps of other requests may come in between; pend      *)
(* holds the requests suspended there.  SpecPayroll runs calculate_payroll *)
(* over a wide range of stored employees, and SpecSector runs the two      *)
(* sector handlers past the listing cap.                                   *)
(*                                                                         *)
(* Representation:                                                         *)
(*   - an Optional[...] value is None == <<>> or <<v>>;                    *)
(*   - uuid4 strings are naturals handed out by a counter (fresh values);  *)
(*   - a str that is compared (SectorData.date) is the sequence of its     *)
(*     character codes; other strings are TLA+ strings;                    *)
(*   - floats are integers; the salaries drawn are multiples of 30, for    *)
(*     which x * 0.4, x * 0.6 and x / 30 are whole numbers (and the        *)
(*     IEEE-754 results equal them);                                       *)
(*   - an HTTP response is [status, body] with body a record: the JSON     *)
(*     object returned, {"detail": ...} for an HTTPException, and          *)
(*     [items |-> <<...>>] for a JSON array; the Portuguese messages are   *)
(*     written without their accents;                                      *)
(*   - update_one with an empty $set is the no-op of a MongoDB server      *)
(*     that accepts it (5.0 and later).                                    *)
(***************************************************************************)
EXTENDS Integers, Sequences, FiniteSets, Bags, TLC

VARIABLES
    employees,      \* db.employees: sequence of Employee documents
    sector_data,    \* db.sector_data: sequence of SectorData documents
    uuidCtr,        \* number of uuid4() values handed out so far
    resp,           \* the response of the last request handled
    pend,           \* bag of requests suspended between find_one and their write
    deleted         \* history: ids for which a delete_one removed a document

vars == <<employees, sector_data, uuidCtr, resp, pend, deleted>>

store == <<employees, sector_data>>

(***************************************************************************)
(* Bounds of the model.                                                    *)
(***************************************************************************)
MaxEmployees == 2       \* documents in db.employees
MaxSectorEntries == 1   \* documents in db.sector_data under Spec
MaxUuid == 2            \* uuid4() values handed out under Spec
MaxInflight == 2        \* requests suspended between find_one and their write
SectorPreload == 99     \* SpecSector: entries already stored at the start
MaxAppends == 2         \* SpecSector: entries appended by the run

(***************************************************************************)
(* Program constants.                                                      *)
(***************************************************************************)
ADMIN_PASSWORD == "natdelmingo231"
SectorListCap == 100
EmployeeListCap == 1000
DefaultFoodBasket == 50
DaysPerMonth == 30

None == <<>>
Some(v) == <<v>>

EmptyDict == [f \in {} |-> 0]

\* {name: opt} if opt is not None, else {}
DictIf(name, opt) == IF opt = None THEN EmptyDict ELSE (name :> opt[1])

(***************************************************************************)
(* Pydantic models.                                                        *)
(***************************************************************************)
\* uuid.uuid4(): a value no earlier call returned
uuid4_repeat(ctr) == 1
uuid4(ctr) == ctr + 1

\* Employee(**employee_dict): id and created_at from the default factories,
\* the calculation fields from their defaults
Employee(id, d, now) ==
    [id |-> id, full_name |-> d.full_name, gross_salary |-> d.gross_salary,
     photo |-> d.photo, pix_key |-> d.pix_key,
     first_half_hours |-> 0, second_half_hours |-> 0, first_half_advance |-> 0,
     second_half_absences |-> 0, food_basket_value |-> DefaultFoodBasket,
     created_at |-> now]

\* employee_data.dict() with del employee_dict['password']
WithoutPassword(d) == [f \in (DOMAIN d) \ {"password"} |-> d[f]]

SectorData(id, name, qty, date, now) ==
    [id |-> id, sector_name |-> name, daily_quantity |-> qty, date |-> date,
     created_at |-> now]

(***************************************************************************)
(* The document store: the motor collection methods the handlers call.     *)
(***************************************************************************)
Matching(coll, id) == {i \in DOMAIN coll : coll[i].id = id}

First(S) == CHOOSE i \in S : \A j \in S : i <= j

\* find_one({"id": id}): the first matching document, or None
find_one(coll, id) ==
    LET found == SelectSeq(coll, LAMBDA doc : doc.id = id)
    IN  IF found = <<>> THEN None ELSE Some(found[1])

\* insert_one(doc)
insert_one(coll, doc) == Append(coll, doc)

\* update_one({"id": id}, {"$set": upd}): no upsert, so no match is a no-op
update_one_upsert(coll, id, upd) ==
    IF Matching(coll, id) = {}
    THEN Append(coll, upd @@ ("id" :> id))
    ELSE [coll EXCEPT ![First(Matching(coll, id))] = upd @@ @]
update_one(coll, id, upd) ==
    IF Matching(coll, id) = {}
    THEN coll
    ELSE [coll EXCEPT ![First(Matching(coll, id))] = upd @@ @]

\* .to_list(length)
to_list(docs, length) ==
    SubSeq(docs, 1, IF Len(docs) < length THEN Len(docs) ELSE length)

\* delete_one({"id": id})
delete_one(coll, id) ==
    IF Matching(coll, id) = {}
    THEN coll
    ELSE LET k == First(Matching(coll, id))
         IN  SubSeq(coll, 1, k - 1) \o SubSeq(coll, k + 1, Len(coll))

(***************************************************************************)
(* Responses.                                                              *)
(***************************************************************************)
HTTPException(status, detail) == [status |-> status, body |-> [detail |-> detail]]
Ok(body) == [status |-> 200, body |-> body]
Message(text) == Ok([message |-> text])

Forbidden == HTTPException(403, "Senha incorreta")
NotFound == HTTPException(404, "Funcionario nao encontrado")
InvalidPeriod == HTTPException(400, "Periodo invalido. Use 'first' ou 'second'")

\* the password gate: exact string equality with the fixed secret
PasswordOk_open(password) == TRUE
PasswordOk(password) == password = ADMIN_PASSWORD


(***************************************************************************)
(* Employee endpoints.                                                     *)
(***************************************************************************)
Reply(r) == resp' = r

\* POST /employees
create_employee(employee_data, now) ==
    IF ~PasswordOk(employee_data.password)
    THEN /\ Reply(Forbidden)
         /\ UNCHANGED <<employees, sector_data, uuidCtr, pend, deleted>>
    ELSE LET employee ==
                 Employee(uuid4(uuidCtr), WithoutPassword(employee_data), now)
         IN  /\ Reply(Ok(employee))
             /\ employees' = insert_one(employees, employee)
             /\ uuidCtr' = uuidCtr + 1
             /\ UNCHANGED <<sector_data, pend, deleted>>

\* GET /employees/{employee_id}
get_employee(employee_id) ==
    LET employee == find_one(employees, employee_id)
    IN  /\ Reply(IF employee = None THEN NotFound ELSE Ok(employee[1]))
        /\ UNCHANGED <<employees, sector_data, uuidCtr, pend, deleted>>

\* update_dict of update_employee_pix: the stored pix_key is the Optional itself
pix_update_dict(update_data) ==
    IF update_data.pix_key = None THEN EmptyDict
    ELSE ("pix_key" :> update_data.pix_key)

\* update_dict of update_employee_salary
salary_update_dict_both(update_data) ==
    DictIf("gross_salary", update_data.gross_salary) @@ pix_update_dict(update_data)
salary_update_dict(update_data) == DictIf("gross_salary", update_data.gross_salary)

\* update_dict of update_employee_calculations
calc_update_dict(calc_data) ==
    DictIf("first_half_hours", calc_data.first_half_hours)
        @@ DictIf("second_half_hours", calc_data.second_half_hours)
        @@ DictIf("first_half_advance", calc_data.first_half_advance)
        @@ DictIf("second_half_absences", calc_data.second_half_absences)
        @@ DictIf("food_basket_value", calc_data.food_basket_value)

SalaryUpdated == Message("Salario atualizado com sucesso")
PixUpdated == Message("Chave PIX atualizada com sucesso")
Fired == Message("Funcionario demitido com sucesso")
CalcUpdated == Message("Dados de calculo atualizados com sucesso")

\* A request suspended at its second await: the handler, the employee_id it
\* was called with and the update_dict it built.
Job(op, employee_id, upd) == [op |-> op, id |-> employee_id, upd |-> upd]

\* The part of a two-await handler up to its second await: [password gate,]
\* find_one, 404 if absent, build update_dict, suspend on the write.
\* gate is TRUE for the handler without a password.
FindThenSuspend(gate, op, employee_id, update_dict) ==
    IF ~gate
    THEN /\ Reply(Forbidden)
         /\ UNCHANGED <<employees, sector_data, uuidCtr, pend, deleted>>
    ELSE IF find_one(employees, employee_id) = None
    THEN /\ Reply(NotFound)
         /\ UNCHANGED <<employees, sector_data, uuidCtr, pend, deleted>>
    ELSE /\ UNCHANGED <<employees, sector_data, uuidCtr, resp, deleted>>
         /\ pend' = pend (+) SetToBag({Job(op, employee_id, update_dict)})

\* The rest of a two-await handler: the write lands and the handler returns.
WriteThenReply(job, written, ok) ==
    /\ BagIn(job, pend)
    /\ Reply(ok)
    /\ employees' = written
    /\ pend' = pend (-) SetToBag({job})
    /\ UNCHANGED <<sector_data, uuidCtr>>

\* PUT /employees/{employee_id}/salary, up to the await of update_one
update_employee_salary_find(employee_id, update_data) ==
    FindThenSuspend(PasswordOk(update_data.password),
                    "salary", employee_id, salary_update_dict(update_data))

\* PUT /employees/{employee_id}/salary, from the await of update_one
update_employee_salary_write(job) ==
    /\ job.op = "salary"
    /\ WriteThenReply(job, update_one(employees, job.id, job.upd), SalaryUpdated)
    /\ UNCHANGED deleted

\* PUT /employees/{employee_id}/pix, up to the await of update_one
update_employee_pix_find(employee_id, update_data) ==
    FindThenSuspend(PasswordOk(update_data.password),
                    "pix", employee_id, pix_update_dict(update_data))

\* PUT /employees/{employee_id}/pix, from the await of update_one
update_employee_pix_write(job) ==
    /\ job.op = "pix"
    /\ WriteThenReply(job, update_one(employees, job.id, job.upd), PixUpdated)
    /\ UNCHANGED deleted

\* DELETE /employees/{employee_id}, up to the await of delete_one
fire_employee_find(employee_id, password_data) ==
    FindThenSuspend(PasswordOk(password_data.password),
                    "fire", employee_id, EmptyDict)

\* DELETE /employees/{employee_id}, from the await of delete_one.  deleted
\* records the ids a delete_one has removed.
fire_employee_delete(job) ==
    /\ job.op = "fire"
    /\ WriteThenReply(job, delete_one(employees, job.id), Fired)
    /\ deleted' = IF Matching(employees, job.id) # {}
                  THEN deleted \cup {job.id}
                  ELSE deleted

\* PUT /employees/{employee_id}/calculations, up to the await of update_one
update_employee_calculations_find(employee_id, calc_data) ==
    FindThenSuspend(TRUE, "calc", employee_id, calc_update_dict(calc_data))

\* PUT /employees/{employee_id}/calculations, from the await of update_one
update_employee_calculations_write(job) ==
    /\ job.op = "calc"
    /\ WriteThenReply(job, update_one(employees, job.id, job.upd), CalcUpdated)
    /\ UNCHANGED deleted

\* GET /employees
get_employees ==
    /\ Reply(Ok([items |-> to_list(employees, EmployeeListCap)]))
    /\ UNCHANGED <<employees, sector_data, uuidCtr, pend, deleted>>

\* POST /validate-password
validate_password(password_data) ==
    /\ Reply(IF PasswordOk(password_data.password)
             THEN Message("Senha valida") ELSE Forbidden)
    /\ UNCHANGED <<employees, sector_data, uuidCtr, pend, deleted>>

(***************************************************************************)
(* Payroll.                                                                *)
(***************************************************************************)
\* max(a, b) of Python: the first argument unless the second is greater
PyMax_second(a, b) == b
PyMax(a, b) == IF b > a THEN b ELSE a

\* x * 0.4, x * 0.6, x / 30 (x a multiple of 30)
Times04(x) == (x * 4) \div 10
Times06(x) == (x * 6) \div 10
DailySalary(x) == x \div DaysPerMonth

\* the "first" branch
first_half_net(emp) ==
    [period |-> "Primeira Quinzena",
     gross_salary |-> emp.gross_salary,
     hours_worked |-> emp.first_half_hours,
     advance_value |-> emp.first_half_advance,
     absences |-> 0,
     discount_value |-> 0,
     total_to_pay |-> Times04(emp.gross_salary) - emp.first_half_advance]
first_half(emp) ==
    [period |-> "Primeira Quinzena",
     gross_salary |-> emp.gross_salary,
     hours_worked |-> emp.first_half_hours,
     advance_value |-> emp.first_half_advance,
     absences |-> 0,
     discount_value |-> 0,
     total_to_pay |-> Times04(emp.gross_salary)]

\* absence_deduction: each absence costs three days' pay plus the food basket
absence_deduction_flat(emp) ==
    (emp.second_half_absences + 1) * (DailySalary(emp.gross_salary) * 3 + emp.food_basket_value)
absence_deduction(emp) ==
    emp.second_half_absences * (DailySalary(emp.gross_salary) * 3 + emp.food_basket_value)

\* the "second" branch
second_half(emp) ==
    LET base_amount == Times06(emp.gross_salary)
        total_discount == absence_deduction(emp)
    IN  [period |-> "Segunda Quinzena",
         gross_salary |-> emp.gross_salary,
         hours_worked |-> emp.second_half_hours,
         advance_value |-> 0,
         absences |-> emp.second_half_absences,
         discount_value |-> total_discount,
         total_to_pay |-> PyMax(0, base_amount - total_discount)]

\* the response of calculate_payroll
payroll_response_period_first(employee, period) ==
    IF period = "first" /\ employee # None THEN Ok(first_half(employee[1]))
    ELSE IF period = "second" /\ employee # None THEN Ok(second_half(employee[1]))
    ELSE IF period \notin {"first", "second"} THEN InvalidPeriod
    ELSE NotFound
payroll_response(employee, period) ==
    IF employee = None THEN NotFound
    ELSE IF period = "first" THEN Ok(first_half(employee[1]))
    ELSE IF period = "second" THEN Ok(second_half(employee[1]))
    ELSE InvalidPeriod

\* GET /employees/{employee_id}/payroll/{period}
calculate_payroll_settle(employee_id, period) ==
    /\ Reply(payroll_response(find_one(employees, employee_id), period))
    /\ employees' = update_one(employees, employee_id,
                               ("second_half_absences" :> 0))
    /\ UNCHANGED <<sector_data, uuidCtr, pend, deleted>>
calculate_payroll(employee_id, period) ==
    /\ Reply(payroll_response(find_one(employees, employee_id), period))
    /\ UNCHANGED <<employees, sector_data, uuidCtr, pend, deleted>>


(***************************************************************************)
(* Sector endpoints.                                                       *)
(***************************************************************************)
\* a < b for two str values: code-point order, a proper prefix first
RECURSIVE StrLessFrom(_, _, _)
StrLessFrom(a, b, k) ==
    IF k > Len(b) THEN FALSE
    ELSE IF k > Len(a) THEN TRUE
    ELSE IF a[k] # b[k] THEN a[k] < b[k]
    ELSE StrLessFrom(a, b, k + 1)

StrLess(a, b) == StrLessFrom(a, b, 1)

\* find({"sector_name": name}): the matching documents, in stored order
SectorMatches(coll, sector_name) ==
    SelectSeq(coll, LAMBDA e : e.sector_name = sector_name)

Reverse(seq) == [k \in 1..Len(seq) |-> seq[Len(seq) + 1 - k]]

\* the greatest / the least of a non-empty set of str values
MaxStr(D) == CHOOSE d \in D : \A e \in D : ~StrLess(d, e)
MinStr(D) == CHOOSE d \in D : \A e \in D : ~StrLess(e, d)

\* the str values of D from the least to the greatest
RECURSIVE Ascending(_)
Ascending(D) ==
    IF D = {} THEN <<>> ELSE <<MinStr(D)>> \o Ascending(D \ {MinStr(D)})

\* the str values of D from the greatest to the least
RECURSIVE Descending(_)
Descending(D) ==
    IF D = {} THEN <<>> ELSE <<MaxStr(D)>> \o Descending(D \ {MaxStr(D)})

\* the documents of docs whose date is order[k], for k = from, from + 1, ...;
\* documents with equal dates keep their stored order or its reverse (the
\* store does not specify the order of equal sort keys; tie chooses)
RECURSIVE ByDate(_, _, _, _)
ByDate(docs, order, from, tie) ==
    IF from > Len(order) THEN <<>>
    ELSE LET same == SelectSeq(docs, LAMBDA e : e.date = order[from])
         IN  (IF tie = "natural" THEN same ELSE Reverse(same))
                 \o ByDate(docs, order, from + 1, tie)

\* .sort("date", -1)
SortByDateDesc_ascending(docs, tie) ==
    ByDate(docs, Ascending({docs[k].date : k \in DOMAIN docs}), 1, tie)
SortByDateDesc(docs, tie) ==
    ByDate(docs, Descending({docs[k].date : k \in DOMAIN docs}), 1, tie)

\* GET /sectors/{sector_name}/data
get_sector_data(sector_name, tie) ==
    /\ Reply(Ok([items |-> to_list(SortByDateDesc(SectorMatches(sector_data, sector_name),
                                                  tie),
                                   SectorListCap)]))
    /\ UNCHANGED <<employees, sector_data, uuidCtr, pend, deleted>>

SectorUpdated == Message("Dados do setor atualizados com sucesso")

\* POST /sectors/{sector_name}/update
update_sector_data(sector_name, update_data, now) ==
    IF ~PasswordOk(update_data.password)
    THEN /\ Reply(Forbidden)
         /\ UNCHANGED <<employees, sector_data, uuidCtr, pend, deleted>>
    ELSE LET entry == SectorData(uuid4(uuidCtr), sector_name,
                                 update_data.daily_quantity, update_data.date, now)
         IN  /\ Reply(SectorUpdated)
             /\ sector_data' = insert_one(sector_data, entry)
             /\ uuidCtr' = uuidCtr + 1
             /\ UNCHANGED <<employees, pend, deleted>>

(***************************************************************************)
(* Requests drawn by the specifications.                                   *)
(***************************************************************************)
Passwords == {ADMIN_PASSWORD, "wrong"}
Times == {1}
EmployeeIds == 1..MaxUuid
Periods == {"first", "second", "third"}

CreateRequests ==
    [full_name : {"Ana"}, gross_salary : {3000}, password : Passwords,
     photo : {Some("img")}, pix_key : {Some("k0")}]

\* every combination of supplied fields with the right password, and one
\* request with each other password
UpdateRequests ==
    {u \in [gross_salary : {None, Some(-3000)}, password : Passwords,
            pix_key : {None, Some("k1")}] :
        u.password # ADMIN_PASSWORD => (u.gross_salary # None /\ u.pix_key # None)}

PasswordRequests == [password : Passwords]

NoCalc ==
    [first_half_hours |-> None, second_half_hours |-> None,
     first_half_advance |-> None, second_half_absences |-> None,
     food_basket_value |-> None]

\* a request supplying no field and one supplying three of the five
CalcRequests ==
    {NoCalc,
     [NoCalc EXCEPT !.first_half_hours = Some(8),
                    !.first_half_advance = Some(100),
                    !.second_half_absences = Some(2)]}

\* "2024-01-05", "2024-01-10", "2024-1-9" as character codes
Date_2024_01_05 == <<50, 48, 50, 52, 45, 48, 49, 45, 48, 53>>
Date_2024_01_10 == <<50, 48, 50, 52, 45, 48, 49, 45, 49, 48>>
Date_2024_1_9 == <<50, 48, 50, 52, 45, 49, 45, 57>>
Dates == {Date_2024_01_05, Date_2024_01_10, Date_2024_1_9}

SectorNames == {"Setor 1", "Setor 2"}
TieOrders == {"natural", "reverse"}

SectorUpdates == [password : Passwords, daily_quantity : {10}, date : Dates]

(***************************************************************************)
(* Spec: concurrent requests against the two collections.  Each action is  *)
(* what a handler does between two returns to the event loop.              *)
(***************************************************************************)
NoResponse == [status |-> 0, body |-> [detail |-> "no request yet"]]

Init ==
    /\ employees = <<>>
    /\ sector_data = <<>>
    /\ uuidCtr = 0
    /\ resp = NoResponse
    /\ pend = EmptyBag
    /\ deleted = {}

Suspended == BagToSet(pend)

Next ==
    \/ get_employees
    \/ \E d \in CreateRequests, t \in Times :
          /\ Len(employees) < MaxEmployees
          /\ uuidCtr < MaxUuid
          /\ create_employee(d, t)
    \/ \E id \in EmployeeIds : get_employee(id)
    \/ \E id \in EmployeeIds, u \in UpdateRequests :
          BagCardinality(pend) < MaxInflight /\ update_employee_salary_find(id, u)
    \/ \E job \in Suspended : update_employee_salary_write(job)
    \/ \E id \in EmployeeIds, u \in UpdateRequests :
          BagCardinality(pend) < MaxInflight /\ update_employee_pix_find(id, u)
    \/ \E job \in Suspended : update_employee_pix_write(job)
    \/ \E id \in EmployeeIds, p \in PasswordRequests :
          BagCardinality(pend) < MaxInflight /\ fire_employee_find(id, p)
    \/ \E job \in Suspended : fire_employee_delete(job)
    \/ \E id \in EmployeeIds, c \in CalcRequests :
          BagCardinality(pend) < MaxInflight /\ update_employee_calculations_find(id, c)
    \/ \E job \in Suspended : update_employee_calculations_write(job)
    \/ \E id \in EmployeeIds, period \in Periods : calculate_payroll(id, period)
    \/ \E p \in PasswordRequests : validate_password(p)
    \/ \E n \in {"Setor 1"}, tie \in TieOrders : get_sector_data(n, tie)
    \/ \E n \in {"Setor 1"}, u \in SectorUpdates, t \in Times :
          /\ u.date = Date_2024_01_10
          /\ Len(sector_data) < MaxSectorEntries
          /\ uuidCtr < MaxUuid
          /\ update_sector_data(n, u, t)

Spec == Init /\ [][Next]_vars


(***************************************************************************)
(* SpecPayroll: calculate_payroll over the stored employees.  No field is  *)
(* validated for range, so create_employee followed by                     *)
(* update_employee_calculations stores any of these records.               *)
(***************************************************************************)
Salaries == {-3000, -30, 0, 30, 1500, 3000}
Absences == {-1, 0, 1, 2, 10}
FoodBaskets == {-50, 0, 50}

StoredEmployees ==
    [id : {1}, full_name : {"Ana"}, gross_salary : Salaries,
     photo : {None}, pix_key : {None},
     first_half_hours : {0, 8}, second_half_hours : {0, 9},
     first_half_advance : {0, 100}, second_half_absences : Absences,
     food_basket_value : FoodBaskets, created_at : Times]

InitPayroll ==
    /\ \E e \in StoredEmployees : employees = <<e>>
    /\ sector_data = <<>>
    /\ uuidCtr = 1
    /\ resp = NoResponse
    /\ pend = EmptyBag
    /\ deleted = {}

NextPayroll ==
    \E id \in {1, 2}, period \in Periods : calculate_payroll(id, period)

SpecPayroll == InitPayroll /\ [][NextPayroll]_vars

(***************************************************************************)
(* SpecSector: the sector store, from an empty collection or from one that *)
(* SectorPreload earlier appends to "Setor 1" have filled.                 *)
(***************************************************************************)
Preloaded(date) ==
    [i \in 1..SectorPreload |-> SectorData(i, "Setor 1", 10, date, 1)]

InitSector ==
    /\ employees = <<>>
    /\ sector_data \in {<<>>} \cup {Preloaded(d) : d \in Dates}
    /\ uuidCtr = Len(sector_data)
    /\ resp = NoResponse
    /\ pend = EmptyBag
    /\ deleted = {}

NextSector ==
    \/ \E n \in SectorNames, tie \in TieOrders : get_sector_data(n, tie)
    \/ \E n \in SectorNames, u \in SectorUpdates, t \in Times :
          /\ \/ Len(sector_data) < MaxAppends
             \/ /\ Len(sector_data) >= SectorPreload
                /\ Len(sector_data) < SectorPreload + MaxAppends
          /\ update_sector_data(n, u, t)

SpecSector == InitSector /\ [][NextSector]_vars

(***************************************************************************)
(* Properties.                                                             *)
(***************************************************************************)
Exists(employee_id) == Matching(employees, employee_id) # {}

IsPayroll(r, label) ==
    /\ r.status = 200
    /\ "total_to_pay" \in DOMAIN r.body
    /\ r.body.period = label

Max0(x) == IF x > 0 THEN x ELSE 0

\* C1: the second-half payroll of a stored employee reports
\* discount_value = second_half_absences * (gross_salary/30 * 3 + food_basket_value)
\* and total_to_pay = max(0, gross_salary * 0.6 - discount_value), which is never
\* negative; salary 3000, basket 50 gives 1100 for 2 absences and 0 for 10.
\* (Stated in tenths: gross_salary/30 * 3 is gross_salary/10.)
C1_SecondHalfFormula ==
    IsPayroll(resp, "Segunda Quinzena") =>
        LET e == employees[1]
            b == resp.body
        IN  /\ 10 * b.discount_value
                  = e.second_half_absences * (e.gross_salary + 10 * e.food_basket_value)
            /\ 10 * b.total_to_pay = Max0(6 * e.gross_salary - 10 * b.discount_value)
            /\ b.total_to_pay >= 0
            /\ (e.gross_salary = 3000 /\ e.food_basket_value = 50
                    /\ e.second_half_absences = 2) => b.total_to_pay = 1100
            /\ (e.gross_salary = 3000 /\ e.food_basket_value = 50
                    /\ e.second_half_absences = 10) => b.total_to_pay = 0

\* the deductions (3500) exceed the base amount (1800) and the total is 0
C1_Witness ==
    /\ IsPayroll(resp, "Segunda Quinzena")
    /\ employees[1].gross_salary = 3000
    /\ employees[1].second_half_absences = 10
    /\ employees[1].food_basket_value = 50
    /\ resp.body.discount_value = 3500
    /\ resp.body.total_to_pay = 0

\* C2 as claimed: with second_half_absences = 0 the second-half payroll returns
\* total_to_pay = gross_salary * 0.6 and discount_value 0, for every gross_salary
\* the store accepts.
C2_AsClaimed ==
    (IsPayroll(resp, "Segunda Quinzena") /\ employees[1].second_half_absences = 0) =>
        /\ resp.body.discount_value = 0
        /\ 10 * resp.body.total_to_pay = 6 * employees[1].gross_salary

\* C2 amended: with second_half_absences = 0 the second-half payroll returns
\* discount_value 0 and total_to_pay = max(0, gross_salary * 0.6), that is
\* gross_salary * 0.6 for gross_salary >= 0 and 0 for a negative gross_salary.
C2_ZeroAbsences ==
    (IsPayroll(resp, "Segunda Quinzena") /\ employees[1].second_half_absences = 0) =>
        /\ resp.body.discount_value = 0
        /\ 10 * resp.body.total_to_pay = Max0(6 * employees[1].gross_salary)
        /\ employees[1].gross_salary >= 0 =>
               10 * resp.body.total_to_pay = 6 * employees[1].gross_salary
        /\ employees[1].gross_salary < 0 => resp.body.total_to_pay = 0

C2_Witness ==
    /\ IsPayroll(resp, "Segunda Quinzena")
    /\ employees[1].second_half_absences = 0
    /\ employees[1].food_basket_value = 50
    /\ employees[1].gross_salary = 3000
    /\ resp.body.total_to_pay = 1800

\* C3: the first-half payroll returns total_to_pay = gross_salary * 0.4 whatever
\* the stored hours, advance, absences and food basket are; it reports absences 0
\* and discount_value 0, and the stored first-half hours and advance as they are.
C3_FirstHalfFormula ==
    IsPayroll(resp, "Primeira Quinzena") =>
        LET e == employees[1]
            b == resp.body
        IN  /\ 10 * b.total_to_pay = 4 * e.gross_salary
            /\ b.absences = 0
            /\ b.discount_value = 0
            /\ b.hours_worked = e.first_half_hours
            /\ b.advance_value = e.first_half_advance
            /\ b.gross_salary = e.gross_salary

C3_Witness ==
    /\ IsPayroll(resp, "Primeira Quinzena")
    /\ employees[1].gross_salary = 3000
    /\ employees[1].first_half_advance = 100
    /\ employees[1].first_half_hours = 8
    /\ employees[1].second_half_absences = 10
    /\ resp.body.advance_value = 100
    /\ resp.body.total_to_pay = 1200


WrongPassword(d) == d.password # ADMIN_PASSWORD

Refused == resp' = Forbidden /\ UNCHANGED store /\ UNCHANGED pend

\* what a step of a password-gated handler called with a wrong password does
C4_Step ==
    /\ \A d \in CreateRequests, t \in Times :
           (WrongPassword(d) /\ create_employee(d, t)) => Refused
    /\ \A id \in EmployeeIds, u \in UpdateRequests :
           /\ (WrongPassword(u) /\ update_employee_salary_find(id, u)) => Refused
           /\ (WrongPassword(u) /\ update_employee_pix_find(id, u)) => Refused
    /\ \A id \in EmployeeIds, p \in PasswordRequests :
           (WrongPassword(p) /\ fire_employee_find(id, p)) => Refused
    /\ \A n \in SectorNames, u \in SectorUpdates, t \in Times :
           (WrongPassword(u) /\ update_sector_data(n, u, t)) => Refused

\* C4: create employee, update salary, update PIX key, fire employee and append
\* sector entry, called with a password other than the fixed secret, answer 403
\* at once, leave db.employees and db.sector_data as they were and leave no
\* write behind to land later, whether or not the addressed employee id exists.
C4_WrongPasswordRefused == [][C4_Step]_vars

\* a request was refused while employee 1 was stored and id 2 was not
C4_Witness ==
    /\ resp = Forbidden
    /\ Exists(1)
    /\ ~Exists(2)
    /\ sector_data # <<>>

Missing == resp' = NotFound /\ UNCHANGED store /\ UNCHANGED pend

\* what a handler does when the id it looks up is not stored, and what a
\* write that lands on an id that is no longer stored does
C5_Step ==
    /\ \A id \in EmployeeIds :
           ~Exists(id) =>
               /\ get_employee(id) => Missing
               /\ \A c \in CalcRequests :
                      update_employee_calculations_find(id, c) => Missing
               /\ \A period \in Periods : calculate_payroll(id, period) => Missing
               /\ \A u \in UpdateRequests :
                      /\ (~WrongPassword(u) /\ update_employee_salary_find(id, u))
                             => Missing
                      /\ (~WrongPassword(u) /\ update_employee_pix_find(id, u))
                             => Missing
               /\ \A p \in PasswordRequests :
                      (~WrongPassword(p) /\ fire_employee_find(id, p)) => Missing
    /\ \A job \in Suspended :
           ~Exists(job.id) =>
               /\ update_employee_salary_write(job) => UNCHANGED store
               /\ update_employee_pix_write(job) => UNCHANGED store
               /\ fire_employee_delete(job) => UNCHANGED store
               /\ update_employee_calculations_write(job) => UNCHANGED store

\* C5: get by id, update calculations, compute payroll (any period string) and,
\* with the correct password, update salary, update PIX key and fire, called
\* for an id that is not in db.employees when the handler looks it up, answer
\* 404, leave the store unchanged and leave no write behind; and a delete or
\* update whose id has left the store by the time it lands removes and changes
\* nothing.
C5_UnknownIdNotFound == [][C5_Step]_vars

\* a request for an id that was fired (or never issued) was answered 404 while
\* another employee was stored
C5_Witness ==
    /\ resp = NotFound
    /\ Len(employees) = 1
    /\ deleted # {}

Ids(coll) == {coll[i].id : i \in DOMAIN coll}

IdsDistinct(coll) == \A i, j \in DOMAIN coll : coll[i].id = coll[j].id => i = j

\* what a create_employee step with the correct password does
C6_Step ==
    /\ IdsDistinct(employees')
    /\ \A d \in CreateRequests, t \in Times :
           (~WrongPassword(d) /\ create_employee(d, t)) =>
               /\ Len(employees') = Len(employees) + 1
               /\ SubSeq(employees', 1, Len(employees)) = employees
               /\ sector_data' = sector_data
               /\ LET new == employees'[Len(employees')]
                  IN  /\ resp' = Ok(new)
                      /\ new.full_name = d.full_name
                      /\ new.gross_salary = d.gross_salary
                      /\ new.photo = d.photo
                      /\ new.pix_key = d.pix_key
                      /\ new.id \notin Ids(employees)
                      /\ new.first_half_hours = 0
                      /\ new.second_half_hours = 0
                      /\ new.first_half_advance = 0
                      /\ new.second_half_absences = 0
                      /\ new.food_basket_value = 50
                      /\ "password" \notin DOMAIN new

\* C6: a create-employee call with the correct password adds exactly one record
\* and changes no existing one; the record carries the supplied full_name,
\* gross_salary, photo and pix_key, an id no stored record has, zero hours,
\* advance and absences, food_basket_value 50 and no password, and is the
\* record returned; ids are pairwise distinct in every state.
C6_CreateAddsOneRecord == [][C6_Step]_vars

\* a second employee was created beside an existing one
C6_Witness ==
    /\ Len(employees) = 2
    /\ resp = Ok(employees[2])
    /\ employees[1].id # employees[2].id

CalcFields ==
    {"first_half_hours", "second_half_hours", "first_half_advance",
     "second_half_absences", "food_basket_value"}

\* employees with the record of employee_id replaced by changed(record)
OnlyChanged(employee_id, changed(_)) ==
    [i \in DOMAIN employees |->
        IF employees[i].id = employee_id THEN changed(employees[i]) ELSE employees[i]]

\* the value stored for a supplied field: pix_key is stored as the Optional
StoredValue(f, v) == IF f = "pix_key" THEN v ELSE v[1]

\* the supplied (non-null) ones of the owned fields of a request
Supplied(req, owned) ==
    [f \in {g \in owned : req[g] # None} |-> StoredValue(f, req[f])]

\* record e with the fields of upd overwritten
Overwritten(e, upd) ==
    [f \in DOMAIN e |-> IF f \in DOMAIN upd THEN upd[f] ELSE e[f]]

\* what the two steps of an update do: on a stored employee the first step
\* changes nothing and suspends a write of exactly the owned supplied fields;
\* the write overwrites those fields of that employee and nothing else
C7_Step ==
    /\ \A id \in EmployeeIds :
           Exists(id) =>
               /\ \A u \in UpdateRequests :
                      /\ (~WrongPassword(u) /\ update_employee_salary_find(id, u)) =>
                             /\ UNCHANGED store
                             /\ pend' = pend (+) SetToBag(
                                    {Job("salary", id, Supplied(u, {"gross_salary"}))})
                      /\ (~WrongPassword(u) /\ update_employee_pix_find(id, u)) =>
                             /\ UNCHANGED store
                             /\ pend' = pend (+) SetToBag(
                                    {Job("pix", id, Supplied(u, {"pix_key"}))})
               /\ \A c \in CalcRequests :
                      update_employee_calculations_find(id, c) =>
                          /\ UNCHANGED store
                          /\ pend' = pend (+) SetToBag(
                                 {Job("calc", id, Supplied(c, CalcFields))})
    /\ \A job \in Suspended :
           /\ update_employee_salary_write(job) =>
                  /\ employees' = OnlyChanged(job.id, LAMBDA e : Overwritten(e, job.upd))
                  /\ sector_data' = sector_data
                  /\ resp' = SalaryUpdated
           /\ update_employee_pix_write(job) =>
                  /\ employees' = OnlyChanged(job.id, LAMBDA e : Overwritten(e, job.upd))
                  /\ sector_data' = sector_data
                  /\ resp' = PixUpdated
           /\ update_employee_calculations_write(job) =>
                  /\ employees' = OnlyChanged(job.id, LAMBDA e : Overwritten(e, job.upd))
                  /\ sector_data' = sector_data
                  /\ resp' = CalcUpdated

\* C7: on a stored employee, update salary writes only gross_salary, update
\* PIX key only pix_key, update calculations only the supplied ones of its five
\* fields; when the write lands, every other field of the record (id,
\* created_at, a pix_key sent to the salary endpoint, a gross_salary sent to the
\* PIX endpoint) and every other record stay as they were, and a request
\* supplying none of the owned fields reports success and changes nothing.
C7_UpdatesOwnFieldsOnly == [][C7_Step]_vars

\* a salary update landed on employee 2 and left its pix_key and employee 1 alone
C7_Witness ==
    /\ resp = SalaryUpdated
    /\ Len(employees) = 2
    /\ employees[2].gross_salary = -3000
    /\ employees[2].pix_key = Some("k0")
    /\ employees[1].gross_salary = 3000

\* what a calculate_payroll step does
C8_Step ==
    \A id \in EmployeeIds, period \in Periods :
        calculate_payroll(id, period) =>
            /\ UNCHANGED store
            /\ (Exists(id) /\ period \in {"first", "second"}) =>
                   /\ resp'.status = 200
                   /\ resp'.body.gross_salary
                          = employees[First(Matching(employees, id))].gross_salary
            /\ (Exists(id) /\ period \notin {"first", "second"}) => resp' = InvalidPeriod
            /\ resp' = payroll_response(find_one(employees', id), period)

\* C8: calculate_payroll never changes the store: a valid period returns a
\* breakdown, another period on a stored employee returns 400, every record is
\* the same before and after, and the same call made again right after it
\* returns the same result.
C8_PayrollReadOnly == [][C8_Step]_vars

\* an invalid period was refused for a stored employee with absences recorded
C8_Witness ==
    /\ resp = InvalidPeriod
    /\ Len(employees) = 2
    /\ employees[1].second_half_absences = 2


Min2(a, b) == IF a < b THEN a ELSE b

\* the stored entries of a sector, as a set of positions
StoredOf(sector_name) ==
    {i \in DOMAIN sector_data : sector_data[i].sector_name = sector_name}

\* items is a listing of sector_name over the stored entries
Listing(items, sector_name) ==
    LET S == StoredOf(sector_name)
        listed == {items[k].id : k \in DOMAIN items}
    IN  /\ Len(items) = Min2(100, Cardinality(S))
        /\ Cardinality(listed) = Len(items)
        /\ \A k \in DOMAIN items :
               /\ items[k].sector_name = sector_name
               /\ \E i \in S : sector_data[i] = items[k]
        /\ \A k \in 1..(Len(items) - 1) : ~StrLess(items[k].date, items[k + 1].date)
        /\ \A k, l \in DOMAIN items :
               (items[k].date = Date_2024_01_05 /\ items[l].date = Date_2024_01_10)
                   => l < k
        /\ \A i \in S :
               sector_data[i].id \notin listed =>
                   \A k \in DOMAIN items : ~StrLess(items[k].date, sector_data[i].date)

\* what a step of the two sector handlers does
C9_Step ==
    /\ \A n \in SectorNames, tie \in TieOrders :
           get_sector_data(n, tie) =>
               /\ resp'.status = 200
               /\ Listing(resp'.body.items, n)
               /\ UNCHANGED store
    /\ \A n \in SectorNames, u \in SectorUpdates, t \in Times :
           (~WrongPassword(u) /\ update_sector_data(n, u, t)) =>
               /\ resp' = SectorUpdated
               /\ Len(sector_data') = Len(sector_data) + 1
               /\ SubSeq(sector_data', 1, Len(sector_data)) = sector_data
               /\ LET new == sector_data'[Len(sector_data')]
                  IN  /\ new.sector_name = n
                      /\ new.date = u.date
                      /\ new.daily_quantity = u.daily_quantity

\* C9: after any successful appends, get_sector_data for a name returns only
\* entries of that name, in non-increasing order of the date string (so
\* "2024-01-10" before "2024-01-05" whichever was appended first), min(100,
\* number of matching entries) of them, those with the greatest date strings;
\* an append adds one entry and removes or alters no earlier one.
C9_SectorListing == [][C9_Step]_vars

\* more than 100 entries of "Setor 1" are stored, and the 100 listed start
\* with a later date than they end with
C9_Witness ==
    /\ resp.status = 200
    /\ "items" \in DOMAIN resp.body
    /\ Cardinality(StoredOf("Setor 1")) > 100
    /\ Len(resp.body.items) = 100
    /\ resp.body.items[1].sector_name = "Setor 1"
    /\ resp.body.items[1].date = Date_2024_01_10
    /\ resp.body.items[100].date = Date_2024_01_05

\* C10: once a fire call's delete has been applied for an employee id, that id
\* is absent from db.employees in every later state, whatever writes of
\* requests that passed their find_one earlier land afterwards, and whatever
\* is created later.
C10_FiredStaysAbsent == \A id \in deleted : ~Exists(id)

\* the only employee ever created was fired, and a salary update that had
\* passed its existence check landed after the delete
C10_Witness ==
    /\ uuidCtr = 1
    /\ deleted = {1}
    /\ employees = <<>>
    /\ resp = SalaryUpdated

====
